---- MODULE Spec2Model ----
(***************************************************************************)
(* Model of main_dash_app.py: the PDF text extraction callbacks            *)
(* (update_output_tab1, update_output_tab2) and the pathology report       *)
(* segmentation (get_partial_content, get_pathology_body_parts).           *)
(*                                                                         *)
(* A string is a sequence of Unicode code points; indices of the Python    *)
(* code are 0-based, those of the sequences 1-based.                       *)
(***************************************************************************)
EXTENDS Integers, Sequences, FiniteSets, TLC

VARIABLES
    \* get_partial_content, one call
    seg_pc,            \* "idle" | "start" | "split" | "cut" | "done"
    original_content,  \* the argument
    header,            \* local header
    body,              \* local body
    footer,            \* local footer
    z,                 \* the returned dict, as its items in insertion order
    \* update_output_tab1 / update_output_tab2, one callback run
    pc,                \* position in the callback
    tab,               \* 0: no callback running; 1, 2: which callback
    file_content,      \* the upload's contents argument
    file_name,         \* the upload's filename argument
    text,              \* local text
    native,            \* what extract_text_from_pdf returned in this run
    n_pages,           \* number of pages of the uploaded document
    images,            \* number of page images pdf_to_images returned
    text_per_page,     \* extract_text_from_images: what tesseract read, per image
    calls,             \* external capabilities invoked in this run, in order
    outcome,           \* "none" | "returned" | "PreventUpdate" | "error"
    handed,            \* the argument get_partial_content was called with
    result,            \* the text update_output_tab1 returned
    cards              \* the (title, content) cards update_output_tab2 built

seg_vars == <<seg_pc, original_content, header, body, footer, z>>
app_vars == <<pc, tab, file_content, file_name, text, native, n_pages, images,
              text_per_page, calls, outcome, handed, result, cards>>
vars == <<seg_pc, original_content, header, body, footer, z,
          pc, tab, file_content, file_name, text, native, n_pages, images,
          text_per_page, calls, outcome, handed, result, cards>>

(***************************************************************************)
(* Characters                                                              *)
(***************************************************************************)
LRE == 8234        \* U+202A left-to-right embedding
RLE == 8235        \* U+202B right-to-left embedding
PDF == 8236        \* U+202C pop directional formatting
Colon == 58
Apostrophe == 39
Newline == 10

\* The characters the texts of the model are filled with.
Fill == [space |-> 32, a |-> 97, b |-> 98, x |-> 120]

\* The characters str.strip() removes (the ones below U+0080).
Whitespace == {9, 10, 11, 12, 13, 28, 29, 30, 31, 32}

(***************************************************************************)
(* Python string primitives                                                *)
(***************************************************************************)
\* s[i:i+len(p)] == p, i 0-based
MatchAt(s, p, i) ==
    /\ i + Len(p) <= Len(s)
    /\ \A j \in 1..Len(p) : s[i + j] = p[j]

RECURSIVE FindFrom(_, _, _)
FindFrom(s, p, i) ==
    IF i + Len(p) > Len(s) THEN -1
    ELSE IF MatchAt(s, p, i) THEN i
    ELSE FindFrom(s, p, i + 1)

\* s.find(p): the lowest 0-based index where p occurs in s, -1 when it does not
find(s, p) == FindFrom(s, p, 0)

\* How a slice bound i is read for a string of length n: a negative bound
\* counts from the end, and every bound is clipped to 0..n.
SliceBound(i, n) ==
    IF i < 0 THEN (IF i + n < 0 THEN 0 ELSE i + n)
    ELSE IF i > n THEN n ELSE i

\* s[:i]
SliceTo(s, i) == SubSeq(s, 1, SliceBound(i, Len(s)))

\* s[i:]
SliceFrom(s, i) == SubSeq(s, SliceBound(i, Len(s)) + 1, Len(s))

RECURSIVE join(_, _)
\* sep.join(parts)
join(sep, parts) ==
    IF Len(parts) = 0 THEN <<>>
    ELSE IF Len(parts) = 1 THEN parts[1]
    ELSE parts[1] \o sep \o join(sep, Tail(parts))

RECURSIVE lstrip(_)
lstrip(s) ==
    IF Len(s) > 0 /\ s[1] \in Whitespace THEN lstrip(Tail(s)) ELSE s

RECURSIVE rstrip(_)
rstrip(s) ==
    IF Len(s) > 0 /\ s[Len(s)] \in Whitespace
    THEN rstrip(SubSeq(s, 1, Len(s) - 1)) ELSE s

\* s.strip()
strip(s) == rstrip(lstrip(s))

\* s.lower(), on the ASCII letters
lower(s) == [i \in 1..Len(s) |-> IF s[i] >= 65 /\ s[i] <= 90 THEN s[i] + 32 ELSE s[i]]

\* s.endswith(p)
endswith(s, p) == Len(s) >= Len(p) /\ SubSeq(s, Len(s) - Len(p) + 1, Len(s)) = p

(***************************************************************************)
(* The marker phrases, as the literals of the source spell them.           *)
(***************************************************************************)
HebMacro == <<1514, 1488, 1493, 1512, 32, 1502, 1488, 1511, 1512, 1493, 1505,
              1511, 1493, 1508, 1497>>
HebDiagnosis == <<1488, 1489, 1495, 1504, 1492>>
HebPrevTests == <<1489, 1491, 1497, 1511, 1493, 1514, 32, 1511, 1493, 1491,
                  1502, 1493, 1514>>
HebClinical == <<1508, 1512, 1496, 1497, 1501, 32, 1511, 1500, 1497, 1504,
                 1497, 1497, 1501>>
HebPrintDate == <<1514, 1488, 1512, 1497, 1498, 32, 1492, 1491, 1508, 1505,
                  1492>>

\* get_pathology_body_parts
MacroPrefix == HebMacro \o <<LRE, Colon, PDF, PDF>>
DiagnosisPrefix == HebDiagnosis \o <<LRE, Colon, PDF, PDF>>
PrevTestsPrefix == <<RLE>> \o HebPrevTests \o <<LRE, Colon>>
ClinicalInfoPrefix == <<RLE>> \o HebClinical \o <<LRE, Colon>>

\* get_partial_content
prefix_options ==
    << <<RLE>> \o HebClinical \o <<LRE, Colon>>,
       HebPrevTests \o <<LRE, Colon, PDF, PDF>>,
       <<RLE>> \o HebDiagnosis \o <<LRE, Colon, PDF, PDF>> >>
PrintDatePostfix == HebPrintDate \o <<LRE, Colon, PDF, PDF>>

(***************************************************************************)
(* get_pathology_body_parts                                                *)
(***************************************************************************)
Item(k, v) == [key |-> k, value |-> v]

\* Peel, were the body not truncated once a section is found.
Peel_NoTruncate(b, marker) ==
    LET idx == find(b, marker)
    IN  [index |-> idx,
         part |-> IF idx # -1 THEN SliceFrom(b, idx) ELSE <<>>,
         rest |-> b]

\* The search for one marker in what is left of the body: its index, and the
\* body left once the section is peeled off.
Peel(b, marker) ==
    LET idx == find(b, marker)
    IN  [index |-> idx,
         part |-> IF idx # -1 THEN SliceFrom(b, idx) ELSE <<>>,
         rest |-> IF idx # -1 THEN SliceTo(b, idx) ELSE b]

\* ans_body_parts_dict: the four markers are searched in the order Macroscopic
\* Description, Diagnosis, Previous Tests, Clinical Information, each in what
\* the searches before it left; one item per marker found is then inserted in
\* the reverse order.
get_pathology_body_parts(b) ==
    LET macro == Peel(b, MacroPrefix)
        diagnosis == Peel(macro.rest, DiagnosisPrefix)
        prev_tests == Peel(diagnosis.rest, PrevTestsPrefix)
        clinical_info == Peel(prev_tests.rest, ClinicalInfoPrefix)
    IN  (IF clinical_info.index # -1
         THEN <<Item("Clinical Information", clinical_info.part)>> ELSE <<>>)
        \o (IF prev_tests.index # -1
            THEN <<Item("Previous Tests", prev_tests.part)>> ELSE <<>>)
        \o (IF diagnosis.index # -1
            THEN <<Item("Diagnosis", diagnosis.part)>> ELSE <<>>)
        \o (IF macro.index # -1
            THEN <<Item("Macroscopic Description", macro.part)>> ELSE <<>>)

(***************************************************************************)
(* get_partial_content                                                     *)
(***************************************************************************)
RECURSIVE OuterSplitFrom(_, _)
\* the loop over prefix_options from its k-th entry on
OuterSplitFrom(oc, k) ==
    IF k > Len(prefix_options) THEN [header |-> <<>>, body |-> <<>>]
    ELSE LET prefix_index == find(oc, prefix_options[k])
         IN  IF prefix_index # -1
             THEN [header |-> SliceTo(oc, prefix_index),
                   body |-> SliceFrom(oc, prefix_index)]
             ELSE OuterSplitFrom(oc, k + 1)

OuterSplit(oc) == OuterSplitFrom(oc, 1)

\* footer = body[postfix_index:]; body = body[:postfix_index]
FooterCut(b) ==
    LET postfix_index == find(b, PrintDatePostfix)
    IN  [footer |-> SliceFrom(b, postfix_index),
         body |-> SliceTo(b, postfix_index)]

\* z: head_foot, updated with body_parts, then the footer
Assemble(h, b, f) ==
    <<Item("General Information", h)>>
    \o get_pathology_body_parts(b)
    \o <<Item("Document Footer Information", f)>>

get_partial_content(oc) ==
    LET split == OuterSplit(oc)
        cut == FooterCut(split.body)
    IN  Assemble(split.header, cut.body, cut.footer)

(***************************************************************************)
(* One call of get_partial_content, step by step.                          *)
(***************************************************************************)
MaxBlocks == 4

\* The pieces the input texts are put together from: a filler character and
\* the marker phrases, each as the search literals spell it.
InputBlocks ==
    { <<Fill.x>>,
      ClinicalInfoPrefix,
      PrevTestsPrefix,
      prefix_options[2],
      PrevTestsPrefix \o <<PDF, PDF>>,
      DiagnosisPrefix,
      prefix_options[3],
      MacroPrefix,
      PrintDatePostfix }

RECURSIVE Flatten(_)
Flatten(ss) == IF Len(ss) = 0 THEN <<>> ELSE ss[1] \o Flatten(Tail(ss))

InputTexts ==
    { Flatten(bs) : bs \in UNION { [1..n -> InputBlocks] : n \in 0..MaxBlocks } }

AppIdle ==
    /\ pc = "idle"
    /\ tab = 0
    /\ file_content = "None"
    /\ file_name = <<>>
    /\ text = <<>>
    /\ native = <<>>
    /\ n_pages = 0
    /\ images = 0
    /\ text_per_page = <<>>
    /\ calls = <<>>
    /\ outcome = "none"
    /\ handed = <<>>
    /\ result = <<>>
    /\ cards = <<>>

SegIdle ==
    /\ seg_pc = "idle"
    /\ original_content = <<>>
    /\ header = <<>>
    /\ body = <<>>
    /\ footer = <<>>
    /\ z = <<>>

SegInit ==
    /\ AppIdle
    /\ seg_pc = "start"
    /\ original_content \in InputTexts
    /\ header = <<>>
    /\ body = <<>>
    /\ footer = <<>>
    /\ z = <<>>

\* lines 97-103: the loop over prefix_options
SegOuterSplit ==
    /\ seg_pc = "start"
    /\ LET split == OuterSplit(original_content)
       IN  header' = split.header /\ body' = split.body
    /\ seg_pc' = "split"
    /\ UNCHANGED <<original_content, footer, z>>
    /\ UNCHANGED app_vars

\* lines 104-106
SegFooterCut ==
    /\ seg_pc = "split"
    /\ LET cut == FooterCut(body)
       IN  footer' = cut.footer /\ body' = cut.body
    /\ seg_pc' = "cut"
    /\ UNCHANGED <<original_content, header, z>>
    /\ UNCHANGED app_vars

\* lines 107-112
SegReturn ==
    /\ seg_pc = "cut"
    /\ z' = Assemble(header, body, footer)
    /\ seg_pc' = "done"
    /\ UNCHANGED <<original_content, header, body, footer>>
    /\ UNCHANGED app_vars

SegNext == SegOuterSplit \/ SegFooterCut \/ SegReturn

SegSpec == SegInit /\ [][SegNext]_vars

(***************************************************************************)
(* Text extraction                                                         *)
(***************************************************************************)
\* line 253: the length the native text must reach
MinTextLen == 20

\* extract_text_from_pdf: the pages pdftotext read, joined
extract_text_from_pdf(pages) == join(<<Newline, Newline>>, pages)

\* extract_text_from_images: the texts tesseract read, one per image, joined
extract_text_from_images(per_page) == join(<<Newline>>, per_page)

\* lines 253, 277: not text.strip() or len(text) < 20
NeedsOcr(t) == strip(t) = <<>> \/ Len(t) < MinTextLen

\* lines 251, 275: file_name.lower().endswith('.pdf')
\* '.pdf'
DotPdf == <<46, 112, 100, 102>>
\* IsPdfName, were ".pdf" looked for anywhere in the name.
IsPdfName_Contains(fn) == find(lower(fn), DotPdf) # -1

IsPdfName(fn) == endswith(lower(fn), DotPdf)

\* line 283: the f-string '\u202B'{text}'\u202C', apostrophes included
Wrap(t) == <<Apostrophe, RLE, Apostrophe>> \o t \o <<Apostrophe, PDF, Apostrophe>>

(***************************************************************************)
(* The uploads and the documents of the model                              *)
(***************************************************************************)
MaxPages == 2
MaxPad == 1

Repeat(c, n) == [i \in 1..n |-> c]

\* Numbers of letters on a page: none, and what reaches MinTextLen alone or
\* over two pages.
CoreLens == {0, 9, MinTextLen - 1, MinTextLen}

\* A page with a text layer that is a pathology report.
ReportPage ==
    <<Fill.x>> \o ClinicalInfoPrefix \o <<PDF, PDF, Fill.x>>
    \o DiagnosisPrefix \o <<Fill.x>> \o PrintDatePostfix \o <<Fill.x>>

\* What pdftotext may read on one page.
PageTexts ==
    { Repeat(Fill.space, l) \o Repeat(Fill.a, c) \o Repeat(Newline, t) :
        l \in 0..MaxPad, c \in CoreLens, t \in 0..MaxPad }
    \cup {ReportPage}

NativeDocs == UNION { [1..n -> PageTexts] : n \in 1..MaxPages }

\* What tesseract may read on one page image.
OcrTexts == { <<>>, <<Fill.b>>, <<Fill.b, Newline>> }

\* a.pdf, A.PDF, a.txt, pdf, a.pdf.png
FileNames ==
    { <<97, 46, 112, 100, 102>>,
      <<65, 46, 80, 68, 70>>,
      <<97, 46, 116, 120, 116>>,
      <<112, 100, 102>>,
      <<97, 46, 112, 100, 102, 46, 112, 110, 103>> }

\* The contents argument: None, "<type>,<base64>", or a string that
\* split(',') does not cut in two or b64decode rejects.
FileContents == {"None", "data_url", "no_comma", "two_commas", "bad_padding"}

(***************************************************************************)
(* update_output_tab1 and update_output_tab2, step by step.                *)
(***************************************************************************)
Init == AppIdle /\ SegIdle

\* Dash calls the callback of tab t with an upload.
Upload ==
    /\ pc = "idle"
    /\ \E t \in {1, 2}, fc \in FileContents, fn \in FileNames :
          /\ tab' = t
          /\ file_content' = fc
          /\ file_name' = fn
    /\ pc' = "entry"
    /\ UNCHANGED <<text, native, n_pages, images, text_per_page, calls, outcome, handed,
                   result, cards>>
    /\ UNCHANGED seg_vars

\* lines 245-246, 269-270
NoContent ==
    /\ pc = "entry"
    /\ file_content = "None"
    /\ outcome' = "PreventUpdate"
    /\ pc' = "done"
    /\ UNCHANGED <<tab, file_content, file_name, text, native, n_pages, images,
                   text_per_page, calls, handed, result, cards>>
    /\ UNCHANGED seg_vars

\* lines 248-249, 272-273
Decode ==
    /\ pc = "entry"
    /\ file_content = "data_url"
    /\ pc' = "decoded"
    /\ UNCHANGED <<tab, file_content, file_name, text, native, n_pages, images,
                   text_per_page, calls, outcome, handed, result, cards>>
    /\ UNCHANGED seg_vars

\* lines 248-249, 272-273: the unpacking or b64decode raises
DecodeFail ==
    /\ pc = "entry"
    /\ file_content \in {"no_comma", "two_commas", "bad_padding"}
    /\ outcome' = "error"
    /\ pc' = "done"
    /\ UNCHANGED <<tab, file_content, file_name, text, native, n_pages, images,
                   text_per_page, calls, handed, result, cards>>
    /\ UNCHANGED seg_vars

\* lines 256-257, 280-281
RejectNonPdf ==
    /\ pc = "decoded"
    /\ ~IsPdfName(file_name)
    /\ outcome' = "PreventUpdate"
    /\ pc' = "done"
    /\ UNCHANGED <<tab, file_content, file_name, text, native, n_pages, images,
                   text_per_page, calls, handed, result, cards>>
    /\ UNCHANGED seg_vars

\* lines 252, 276
NativeExtract ==
    /\ pc = "decoded"
    /\ IsPdfName(file_name)
    /\ \E pages \in NativeDocs :
          /\ text' = extract_text_from_pdf(pages)
          /\ native' = text'
          /\ n_pages' = Len(pages)
    /\ calls' = Append(calls, "pdftotext")
    /\ pc' = "native"
    /\ UNCHANGED <<tab, file_content, file_name, images, text_per_page, outcome, handed,
                   result, cards>>
    /\ UNCHANGED seg_vars

\* lines 252, 276: pdftotext raises
NativeFail ==
    /\ pc = "decoded"
    /\ IsPdfName(file_name)
    /\ calls' = Append(calls, "pdftotext")
    /\ outcome' = "error"
    /\ pc' = "done"
    /\ UNCHANGED <<tab, file_content, file_name, text, native, n_pages, images,
                   text_per_page, handed, result, cards>>
    /\ UNCHANGED seg_vars

\* lines 253, 277: the native text is kept
AcceptNative ==
    /\ pc = "native"
    /\ ~NeedsOcr(text)
    /\ pc' = "have_text"
    /\ UNCHANGED <<tab, file_content, file_name, text, native, n_pages, images,
                   text_per_page, calls, outcome, handed, result, cards>>
    /\ UNCHANGED seg_vars

\* lines 254, 278
Rasterize ==
    /\ pc = "native"
    /\ NeedsOcr(text)
    /\ images' = n_pages
    /\ calls' = Append(calls, "pdf2image")
    /\ pc' = "raster"
    /\ UNCHANGED <<tab, file_content, file_name, text, native, n_pages,
                   text_per_page, outcome, handed, result, cards>>
    /\ UNCHANGED seg_vars

\* lines 254, 278: pdf2image raises
RasterizeFail ==
    /\ pc = "native"
    /\ NeedsOcr(text)
    /\ calls' = Append(calls, "pdf2image")
    /\ outcome' = "error"
    /\ pc' = "done"
    /\ UNCHANGED <<tab, file_content, file_name, text, native, n_pages, images,
                   text_per_page, handed, result, cards>>
    /\ UNCHANGED seg_vars

\* lines 255, 279
Ocr ==
    /\ pc = "raster"
    /\ \E read \in [1..images -> OcrTexts] :
          /\ text_per_page' = read
          /\ text' = extract_text_from_images(read)
    /\ calls' = calls \o Repeat("tesseract", images)
    /\ pc' = "have_text"
    /\ UNCHANGED <<tab, file_content, file_name, native, n_pages, images,
                   outcome, handed, result, cards>>
    /\ UNCHANGED seg_vars

\* lines 255, 279: tesseract raises on the first image
OcrFail ==
    /\ pc = "raster"
    /\ calls' = Append(calls, "tesseract")
    /\ outcome' = "error"
    /\ pc' = "done"
    /\ UNCHANGED <<tab, file_content, file_name, text, native, n_pages, images,
                   text_per_page, handed, result, cards>>
    /\ UNCHANGED seg_vars

\* line 259
ReturnTab1 ==
    /\ pc = "have_text"
    /\ tab = 1
    /\ result' = text
    /\ outcome' = "returned"
    /\ pc' = "done"
    /\ UNCHANGED <<tab, file_content, file_name, text, native, n_pages, images,
                   text_per_page, calls, handed, cards>>
    /\ UNCHANGED seg_vars

\* lines 283-317: the cards of the new Div, one per item of ans_parts
ReturnTab2 ==
    /\ pc = "have_text"
    /\ tab = 2
    /\ text' = Wrap(text)
    /\ handed' = text'
    /\ cards' = get_partial_content(text')
    /\ outcome' = "returned"
    /\ pc' = "done"
    /\ UNCHANGED <<tab, file_content, file_name, native, n_pages, images,
                   text_per_page, calls, result>>
    /\ UNCHANGED seg_vars

\* The callback is over; the next upload starts a fresh run.
Finish ==
    /\ pc = "done"
    /\ pc' = "idle"
    /\ tab' = 0
    /\ file_content' = "None"
    /\ file_name' = <<>>
    /\ text' = <<>>
    /\ native' = <<>>
    /\ n_pages' = 0
    /\ images' = 0
    /\ text_per_page' = <<>>
    /\ calls' = <<>>
    /\ outcome' = "none"
    /\ handed' = <<>>
    /\ result' = <<>>
    /\ cards' = <<>>
    /\ UNCHANGED seg_vars

Next ==
    \/ Upload \/ NoContent \/ Decode \/ DecodeFail \/ RejectNonPdf
    \/ NativeExtract \/ NativeFail \/ AcceptNative
    \/ Rasterize \/ RasterizeFail \/ Ocr \/ OcrFail
    \/ ReturnTab1 \/ ReturnTab2 \/ Finish

Spec == Init /\ [][Next]_vars

(***************************************************************************)
(* Properties                                                              *)
(***************************************************************************)
Occurs(s, p) == find(s, p) # -1

BeginsWith(s, p) == Len(s) >= Len(p) /\ SubSeq(s, 1, Len(p)) = p

Keys(items) == [i \in 1..Len(items) |-> items[i].key]

RECURSIVE ConcatValues(_)
ConcatValues(items) ==
    IF Len(items) = 0 THEN <<>> ELSE items[1].value \o ConcatValues(Tail(items))

\* The body sections of a returned map: all items but the first and the last.
BodyItems(items) == SubSeq(items, 2, Len(items) - 1)

AnyBodyBegins(s) == \E k \in 1..Len(prefix_options) : Occurs(s, prefix_options[k])

\* The smallest position at which one of the body-begins markers occurs.
FirstBodyBegins(s) ==
    CHOOSE i \in 0..Len(s) :
        /\ \E k \in 1..Len(prefix_options) : find(s, prefix_options[k]) = i
        /\ \A k \in 1..Len(prefix_options) :
              Occurs(s, prefix_options[k]) => find(s, prefix_options[k]) >= i

\* The working body of the outer split: the text from the header's end on.
WorkingBody == SliceFrom(original_content, Len(header))

CanonicalRank(k) ==
    CASE k = "Clinical Information" -> 1
      [] k = "Previous Tests" -> 2
      [] k = "Diagnosis" -> 3
      [] k = "Macroscopic Description" -> 4
      [] OTHER -> 0

MarkerOf(k) ==
    CASE k = "Clinical Information" -> ClinicalInfoPrefix
      [] k = "Previous Tests" -> PrevTestsPrefix
      [] k = "Diagnosis" -> DiagnosisPrefix
      [] OTHER -> MacroPrefix

OcrInvoked == \E i \in 1..Len(calls) : calls[i] \in {"pdf2image", "tesseract"}

\* The text the extraction step of the running callback produced.
Extracted ==
    IF OcrInvoked THEN join(<<Newline>>, text_per_page) ELSE native

\* A filename that ends in ".pdf", whatever the case of its letters.
EndsInDotPdf(fn) ==
    LET n == Len(fn)
    IN  /\ n >= 4
        /\ fn[n - 3] = 46
        /\ fn[n - 2] \in {112, 80}
        /\ fn[n - 1] \in {100, 68}
        /\ fn[n] \in {102, 70}

\* C1: the header, the body sections in source order and the footer of the
\* returned map, concatenated, are the input text.
C1_Reconstructs ==
    seg_pc = "done" => ConcatValues(z) = original_content

\* C2: when the print-date marker does not occur in a non-empty working body,
\* the footer is empty and the whole body goes on to the inner segmentation.
C2_FooterAbsent ==
    (/\ seg_pc \in {"cut", "done"}
     /\ WorkingBody # <<>>
     /\ AnyBodyBegins(original_content)
     /\ ~Occurs(WorkingBody, PrintDatePostfix))
    => (footer = <<>> /\ body = WorkingBody)

\* C3: the native text is kept, and rasterization and OCR are not invoked,
\* exactly when its length after strip() is at least 20; otherwise the OCR
\* path is invoked and its output replaces the native text.
C3_StrippedThreshold ==
    /\ pc = "raster" => Len(strip(native)) < MinTextLen
    /\ pc = "have_text" =>
          IF Len(strip(native)) >= MinTextLen
          THEN ~OcrInvoked /\ text = native
          ELSE OcrInvoked /\ text = join(<<Newline>>, text_per_page)

\* C4: a text with the Diagnosis and the Clinical Information marker and
\* neither the Previous Tests nor the Macroscopic Description marker yields
\* exactly the keys General Information, Clinical Information, Diagnosis,
\* Document Footer Information.
C4_TwoMarkers ==
    (/\ seg_pc = "done"
     /\ Occurs(original_content, DiagnosisPrefix)
     /\ Occurs(original_content, ClinicalInfoPrefix)
     /\ ~Occurs(original_content, PrevTestsPrefix)
     /\ ~Occurs(original_content, prefix_options[2])
     /\ ~Occurs(original_content, MacroPrefix))
    => Keys(z) = <<"General Information", "Clinical Information", "Diagnosis",
                   "Document Footer Information">>

\* C5: the header is the text before the smallest position at which a
\* body-begins marker occurs, the working body is the text from there on, and
\* no body-begins marker occurs in the header.
C5_FirstOccurring ==
    (seg_pc = "split" /\ AnyBodyBegins(original_content))
    => /\ header = SliceTo(original_content, FirstBodyBegins(original_content))
       /\ body = SliceFrom(original_content, FirstBodyBegins(original_content))
       /\ ~AnyBodyBegins(header)

\* C6: with no body-begins marker in the text the map has the two keys
\* General Information and Document Footer Information, the header is empty,
\* and the footer is the text from the print-date marker on when it occurs.
C6_Unmarked ==
    (seg_pc = "done" /\ ~AnyBodyBegins(original_content))
    => /\ Keys(z) = <<"General Information", "Document Footer Information">>
       /\ z[1].value = <<>>
       /\ Occurs(original_content, PrintDatePostfix)
          => z[2].value = SliceFrom(original_content,
                                    find(original_content, PrintDatePostfix))

C8_BlankLineBetweenPages ==
    (pc = "have_text" /\ OcrInvoked)
    => text = join(<<Newline, Newline>>, text_per_page)

\* C9: update_output_tab2 hands get_partial_content the extracted text with
\* one U+202B before it and one U+202C after it and nothing else, and
\* update_output_tab1 returns the extracted text as it is.
C9_WrapOnlyMarkers ==
    (pc = "done" /\ outcome = "returned")
    => /\ tab = 2 => handed = <<RLE>> \o Extracted \o <<PDF>>
       /\ tab = 1 => result = Extracted

\* C10: the keys are General Information, then the body sections found in
\* the order Clinical Information, Previous Tests, Diagnosis, Macroscopic
\* Description, then Document Footer Information; each body section begins
\* with its marker, and the sections lie one after the other, in that order,
\* at the end of the body that was segmented.
C10_OrderedDisjointSections ==
    seg_pc = "done" =>
        LET parts == BodyItems(z)
            all == ConcatValues(parts)
        IN  /\ Len(z) >= 2
            /\ z[1].key = "General Information"
            /\ z[Len(z)].key = "Document Footer Information"
            /\ \A i \in 1..Len(parts) : CanonicalRank(parts[i].key) > 0
            /\ \A i, j \in 1..Len(parts) :
                  i < j => CanonicalRank(parts[i].key) < CanonicalRank(parts[j].key)
            /\ \A i \in 1..Len(parts) :
                  BeginsWith(parts[i].value, MarkerOf(parts[i].key))
            /\ Len(all) <= Len(body)
            /\ SliceFrom(body, Len(body) - Len(all)) = all

\* C10, witness: a text in which three body sections and the footer were found.
C10_Witness ==
    /\ seg_pc = "done"
    /\ Len(z) = 5
    /\ z[5].value # <<>>
    /\ BeginsWith(z[5].value, PrintDatePostfix)

====
